---- MODULE Spec2Model ----
(***************************************************************************)
(* State-machine model of the AutoScience core:                            *)
(*   core/pipeline_state.py   read_state / write_state / next_state        *)
(*   core/project_manager.py  get_project_path / ProjectManager.create /   *)
(*                            clear_and_rerun_project                      *)
(*                                                                         *)
(* Text is modelled as a sequence of tokens (a token is one character or   *)
(* one indivisible word), so that str.strip, str.replace and path joining  *)
(* are computed rather than assumed.  A file is a record [exists, text].   *)
(***************************************************************************)
EXTENDS Integers, Sequences, FiniteSets, TLC

VARIABLES
    rootDir,     \* the projects root is a directory on disk
    projDir,     \* the project directory is a directory on disk
    sub,         \* sub[d]: the directory d of the project, [exists, entries]
    rq,          \* research_question.md, [exists, text]
    rec,         \* pipeline_state.txt, [exists, text]
    op,          \* the operation that made the last step
    arg,         \* the argument it was called with
    ret,         \* what that operation returned or raised
    wrote,       \* that operation wrote pipeline_state.txt
    streak,      \* next_state calls made since the record was last absent
                 \* with no other write in between; -1 once that is broken
    advLog,      \* the results of those calls, in order
    name,        \* the raw project name given to get_project_path
    projects_root, \* the projects_root argument; <<>> stands for None
    path,        \* what get_project_path returned or raised
    pcR,         \* where clear_and_rerun_project stands
    rIdx,        \* index of the generated directory it is clearing
    todo,        \* children listed by iterdir() and not yet visited
    child,       \* the child being deleted
    interfered,  \* deletions made by another process meanwhile
    pre,         \* the project on disk when clear_and_rerun_project began
    ePc,         \* ePc[p]: where the ensure call of process p stands
    placed,      \* placed[p]: that call wrote the placeholder
    promptN,     \* the instruction text a normal run composed
    promptC,     \* the instruction text a clear-and-rerun composed
    mode,        \* the command line: "normal" or "clear" (--clear-and-run)
    cPc,         \* where main stands
    exitS,       \* how the process ended, [done, status, caught, reason]
    agentRan,    \* the agent process was started
    launch,      \* the project on disk when run_codex was called
    mutated,     \* main has created, written or deleted something in the project
    proc,        \* the agent process: "running", "exited" or "killed"
    pipe,        \* pipe[s]: lines written to stream s and not yet read
    written,     \* written[s]: every line the agent wrote to stream s
    lines,       \* out_lines and err_lines of run_codex, by stream
    reader,      \* reader[s]: the thread of stream s, "reading" or "eof"
    kPc,         \* where run_codex stands
    result       \* what run_codex returned or raised

fsVars == <<rootDir, projDir, sub, rq, rec>>
callVars == <<op, arg, ret, wrote>>
histVars == <<streak, advLog>>
pathVars == <<name, projects_root, path>>
resetVars == <<pcR, rIdx, todo, child, interfered, pre>>
raceVars == <<ePc, placed>>
promptVars == <<promptN, promptC>>
cliVars == <<mode, cPc, exitS, agentRan, launch, mutated>>
runVars == <<proc, pipe, written, lines, reader, kPc, result>>
extVars == <<raceVars, promptVars, cliVars, runVars>>

----------------------------------------------------------------------------
(* Bounds *)

\* longest text the agent leaves in pipeline_state.txt, in tokens
MaxRecLen == 2
\* longest write_state argument, in tokens
MaxArgLen == 1
\* longest raw project name, in characters
MaxNameLen == 4
\* deletions another process makes while the project is being cleared
MaxInterfere == 1
\* processes that call ensure on the same project at the same time
NumEnsurers == 2
\* longest run of next_state calls that is followed
MaxCalls == 6
\* lines the agent writes to each of its two pipes
MaxLines == 2

----------------------------------------------------------------------------
(* Generic helpers *)

Range(s) == {s[i] : i \in 1..Len(s)}

SeqsUpTo(S, n) == UNION {[1..k -> S] : k \in 0..n}

NoFile == [exists |-> FALSE, text |-> <<>>]

File(t) == [exists |-> TRUE, text |-> t]

----------------------------------------------------------------------------
(* core/pipeline_state.py *)

VALID_STATES ==
    << <<"Parsing Data">>, <<"Running Analysis">>, <<"Visualizing">>,
       <<"Reporting">>, <<"Done">> >>

\* the characters str.strip() removes
Whitespace == {" ", "\n"}

\* the five phase names, as tokens
PhaseWords == {VALID_STATES[i][1] : i \in 1..Len(VALID_STATES)}

\* tokens a record text is made of
RecTokens == Whitespace \cup PhaseWords \cup {"Bogus"}

RecTexts == SeqsUpTo(RecTokens, MaxRecLen)

\* the values write_state is called with
WriteArgs == SeqsUpTo(PhaseWords \cup {"Bogus", "\n"}, MaxArgLen)

RECURSIVE lstrip(_)
lstrip(s) ==
    IF s # <<>> /\ Head(s) \in Whitespace THEN lstrip(Tail(s)) ELSE s

RECURSIVE rstrip(_)
rstrip(s) ==
    IF s # <<>> /\ s[Len(s)] \in Whitespace
    THEN rstrip(SubSeq(s, 1, Len(s) - 1))
    ELSE s

strip(s) == rstrip(lstrip(s))

\* results of a call
Value(t) == [kind |-> "value", val |-> t, exc |-> ""]
None == [kind |-> "none", val |-> <<>>, exc |-> ""]
Raise(e) == [kind |-> "raise", val |-> <<>>, exc |-> e]
NotCalled == [kind |-> "not_called", val |-> <<>>, exc |-> ""]

\* read_state: the text it returns for a record file r
read_state_mut_nostrip(r) ==
    IF ~r.exists THEN VALID_STATES[1]
    ELSE IF r.text = <<>> THEN VALID_STATES[1] ELSE r.text

read_state(r) ==
    IF ~r.exists THEN VALID_STATES[1]
    ELSE IF strip(r.text) = <<>> THEN VALID_STATES[1] ELSE strip(r.text)

\* VALID_STATES.index(s), for s in VALID_STATES
index(s) == CHOOSE i \in 1..Len(VALID_STATES) : VALID_STATES[i] = s

\* write_state(state): [ret, rec] the result and the record file afterwards
write_state_mut_unchecked(state, dirOk, r) ==
    IF ~dirOk THEN [ret |-> Raise("FileNotFoundError"), rec |-> r, wrote |-> FALSE]
    ELSE [ret |-> None, rec |-> File(state), wrote |-> TRUE]

write_state(state, dirOk, r) ==
    IF state \notin Range(VALID_STATES)
    THEN [ret |-> Raise("ValueError"), rec |-> r, wrote |-> FALSE]
    ELSE IF ~dirOk
    THEN [ret |-> Raise("FileNotFoundError"), rec |-> r, wrote |-> FALSE]
    ELSE [ret |-> None, rec |-> File(state), wrote |-> TRUE]

\* next_state: [ret, rec, wrote]
next_state_mut_skip(dirOk, r) ==
    LET current == read_state(r) IN
    IF current \notin Range(VALID_STATES)
    THEN [ret |-> Value(VALID_STATES[1]), rec |-> r, wrote |-> FALSE]
    ELSE IF index(current) >= Len(VALID_STATES) - 1
    THEN [ret |-> None, rec |-> r, wrote |-> FALSE]
    ELSE LET new_state == VALID_STATES[index(current) + 2]
             w == write_state(new_state, dirOk, r) IN
         IF w.ret.kind = "raise" THEN w
         ELSE [ret |-> Value(new_state), rec |-> w.rec, wrote |-> w.wrote]

next_state_mut_rewrite(dirOk, r) ==
    LET current == read_state(r) IN
    IF current \notin Range(VALID_STATES)
    THEN [ret |-> Value(VALID_STATES[1]), rec |-> r, wrote |-> FALSE]
    ELSE LET i == index(current)
             new_state == VALID_STATES[IF i >= Len(VALID_STATES) THEN i ELSE i + 1]
             w == write_state(new_state, dirOk, r) IN
         IF w.ret.kind = "raise" THEN w
         ELSE [ret |-> IF i >= Len(VALID_STATES) THEN None ELSE Value(new_state),
               rec |-> w.rec, wrote |-> w.wrote]

next_state_mut_recover(dirOk, r) ==
    LET current == read_state(r) IN
    IF current \notin Range(VALID_STATES)
    THEN write_state(VALID_STATES[1], dirOk, r)
    ELSE IF index(current) >= Len(VALID_STATES)
    THEN [ret |-> None, rec |-> r, wrote |-> FALSE]
    ELSE LET new_state == VALID_STATES[index(current) + 1]
             w == write_state(new_state, dirOk, r) IN
         IF w.ret.kind = "raise" THEN w
         ELSE [ret |-> Value(new_state), rec |-> w.rec, wrote |-> w.wrote]

next_state(dirOk, r) ==
    LET current == read_state(r) IN
    IF current \notin Range(VALID_STATES)
    THEN [ret |-> Value(VALID_STATES[1]), rec |-> r, wrote |-> FALSE]
    ELSE IF index(current) >= Len(VALID_STATES)
    THEN [ret |-> None, rec |-> r, wrote |-> FALSE]
    ELSE LET new_state == VALID_STATES[index(current) + 1]
             w == write_state(new_state, dirOk, r) IN
         IF w.ret.kind = "raise" THEN w
         ELSE [ret |-> Value(new_state), rec |-> w.rec, wrote |-> w.wrote]

----------------------------------------------------------------------------
(* The project on disk *)

PROJECT_SUBDIRS == <<"data", "analysis_scripts", "visualization_scripts", "reporting">>

\* the three directories clear_and_rerun_project empties
GENERATED_SUBDIRS == <<"analysis_scripts", "visualization_scripts", "reporting">>

\* a directory entry is named after what it is
Children == {"file", "symlink", "dir"}

NoDir == [exists |-> FALSE, entries |-> {}]

Dir(es) == [exists |-> TRUE, entries |-> es]

\* the placeholder ProjectManager.create writes, and other contents
RQ_TEMPLATE == <<"# Research question", "\n", "\n",
                 "<!-- Describe the goal and constraints of this research. -->", "\n">>

RQ_USER == <<"# Research question", "\n", "\n", "Does X cause Y?", "\n">>

RQTexts == {RQ_TEMPLATE, RQ_USER, <<>>}

\* the project on disk, as one value
Disk == [rootDir |-> rootDir, projDir |-> projDir, sub |-> sub, rq |-> rq, rec |-> rec]

\* the disk holds f now / after the step
DiskIs(f) ==
    /\ rootDir = f.rootDir
    /\ projDir = f.projDir
    /\ sub = f.sub
    /\ rq = f.rq
    /\ rec = f.rec

DiskBecomes(f) ==
    /\ rootDir' = f.rootDir
    /\ projDir' = f.projDir
    /\ sub' = f.sub
    /\ rq' = f.rq
    /\ rec' = f.rec

\* ProjectManager.create / ensure: the project on disk afterwards
create_mut_overwrite(fs) ==
    [rootDir |-> TRUE,
     projDir |-> TRUE,
     sub |-> [d \in Range(PROJECT_SUBDIRS) |->
                 IF fs.sub[d].exists THEN fs.sub[d] ELSE Dir({})],
     rq |-> File(RQ_TEMPLATE),
     rec |-> fs.rec]

create(fs) ==
    [rootDir |-> TRUE,
     projDir |-> TRUE,
     sub |-> [d \in Range(PROJECT_SUBDIRS) |->
                 IF fs.sub[d].exists THEN fs.sub[d] ELSE Dir({})],
     rq |-> IF fs.rq.exists THEN fs.rq ELSE File(RQ_TEMPLATE),
     rec |-> fs.rec]

\* nothing on disk yet, with or without the projects root
EmptyDisk(root) ==
    [rootDir |-> root,
     projDir |-> FALSE,
     sub |-> [d \in Range(PROJECT_SUBDIRS) |-> NoDir],
     rq |-> NoFile,
     rec |-> NoFile]

\* the project right after ProjectManager.ensure on an empty disk
FreshProject == DiskIs(create(EmptyDisk(FALSE)))

\* the states a project directory can be in: any of the four directories
\* missing or holding any entries, the research question missing or holding
\* any text, the record missing or present
ProjectStates ==
    {EmptyDisk(FALSE), EmptyDisk(TRUE)} \cup
    [rootDir : {TRUE},
     projDir : {TRUE},
     sub : {f \in [Range(PROJECT_SUBDIRS) -> {NoDir} \cup {Dir(es) : es \in SUBSET Children}] :
               f["data"].entries \subseteq {"file", "dir"}},
     rq : {NoFile} \cup {File(t) : t \in RQTexts},
     rec : {NoFile, File(VALID_STATES[3])}]

\* the processes that call ensure concurrently
Ensurers == 1..NumEnsurers

\* no concurrent ensure under way
NoRace ==
    /\ ePc = [p \in Ensurers |-> "start"]
    /\ placed = [p \in Ensurers |-> FALSE]

\* no instruction text composed yet
NoPrompt ==
    /\ promptN = NotCalled
    /\ promptC = NotCalled

\* the process has not ended
Running == [done |-> FALSE, status |-> 0, caught |-> FALSE, reason |-> ""]

\* sys.exit(status) from an except clause (caught), or the interpreter
\* ending with status 1 on an exception nothing catches
Exited(status, caught, reason) ==
    [done |-> TRUE, status |-> status, caught |-> caught, reason |-> reason]

\* main not started
NoCli ==
    /\ mode = "normal"
    /\ cPc = "off"
    /\ exitS = Running
    /\ agentRan = FALSE
    /\ launch = Disk
    /\ mutated = FALSE

\* the parts of the model used by one specification only, at rest
\* the two pipes of the agent process
Streams == {"out", "err"}

\* run_codex not called
NoRun ==
    /\ proc = "running"
    /\ pipe = [s \in Streams |-> <<>>]
    /\ written = [s \in Streams |-> <<>>]
    /\ lines = [s \in Streams |-> <<>>]
    /\ reader = [s \in Streams |-> "reading"]
    /\ kPc = "off"
    /\ result = NotCalled

NoExt == NoRace /\ NoPrompt /\ NoCli /\ NoRun

\* no call made yet
NoCall ==
    /\ op = "init"
    /\ arg = <<>>
    /\ ret = None
    /\ wrote = FALSE
    /\ streak = 0
    /\ advLog = <<>>

\* get_project_path not in use
NoPath ==
    /\ name = <<"p">>
    /\ projects_root = <<>>
    /\ path = NotCalled

\* clear_and_rerun_project not started
NoReset ==
    /\ pcR = "idle"
    /\ rIdx = 1
    /\ todo = {}
    /\ child = "none"
    /\ interfered = 0
    /\ pre = Disk
    /\ NoExt

----------------------------------------------------------------------------
(* SpecStore: the pipeline state store used on an ensured project, with    *)
(* the agent process and the reset able to edit or delete the record.      *)

InitStore ==
    /\ FreshProject
    /\ NoCall
    /\ NoPath
    /\ NoReset

ReadState ==
    /\ op' = "read_state"
    /\ arg' = <<>>
    /\ ret' = Value(read_state(rec))
    /\ wrote' = FALSE
    /\ UNCHANGED <<fsVars, histVars, pathVars, extVars, resetVars>>

WriteState ==
    \E state \in WriteArgs :
        LET w == write_state(state, projDir, rec) IN
        /\ op' = "write_state"
        /\ arg' = state
        /\ ret' = w.ret
        /\ rec' = w.rec
        /\ wrote' = w.wrote
        /\ streak' = IF w.wrote THEN -1 ELSE streak
        /\ advLog' = IF w.wrote THEN <<>> ELSE advLog
        /\ UNCHANGED <<rootDir, projDir, sub, rq, pathVars, extVars, resetVars>>

NextState ==
    /\ streak < MaxCalls
    /\ LET n == next_state(projDir, rec) IN
        /\ op' = "next_state"
        /\ arg' = <<>>
        /\ ret' = n.ret
        /\ rec' = n.rec
        /\ wrote' = n.wrote
        /\ streak' = IF streak >= 0 THEN streak + 1 ELSE streak
        /\ advLog' = IF streak >= 0
                     THEN Append(advLog, [ret |-> n.ret, wrote |-> n.wrote])
                     ELSE advLog
    /\ UNCHANGED <<rootDir, projDir, sub, rq, pathVars, extVars, resetVars>>

\* the agent (or the user) rewrites pipeline_state.txt with any text
ExternalEdit ==
    \E t \in RecTexts :
        /\ projDir
        /\ rec' = File(t)
        /\ op' = "external_edit"
        /\ arg' = <<>>
        /\ ret' = None
        /\ wrote' = TRUE
        /\ streak' = -1
        /\ advLog' = <<>>
        /\ UNCHANGED <<rootDir, projDir, sub, rq, pathVars, extVars, resetVars>>

\* the record is deleted, as clear_and_rerun_project does
DeleteRecord ==
    /\ rec.exists
    /\ rec' = NoFile
    /\ op' = "delete_record"
    /\ arg' = <<>>
    /\ ret' = None
    /\ wrote' = FALSE
    /\ streak' = 0
    /\ advLog' = <<>>
    /\ UNCHANGED <<rootDir, projDir, sub, rq, pathVars, extVars, resetVars>>

vars == <<rootDir, projDir, sub, rq, rec, op, arg, ret, wrote, streak, advLog,
          name, projects_root, path, pcR, rIdx, todo, child, interfered, pre,
          ePc, placed, promptN, promptC,
          mode, cPc, exitS, agentRan, launch, mutated,
          proc, pipe, written, lines, reader, kPc, result>>

NextStore == ReadState \/ WriteState \/ NextState \/ ExternalEdit \/ DeleteRecord

SpecStore == InitStore /\ [][NextStore]_vars

----------------------------------------------------------------------------
(* Claims about the pipeline state store *)

\* the phase the store reports for the record on disk
Phase == read_state(rec)

\* C1: starting from a project with no phase record, the k-th successive
\* next_state call (k = 1..4) returns the (k+1)-th phase and writes it, so
\* the record is "Done" after exactly four calls; the fifth and every later
\* call returns None and writes nothing, and the record stays "Done".
C1_FourAdvancesThenNone ==
    streak >= 0 =>
        /\ Len(advLog) = streak
        /\ \A k \in 1..Len(advLog) :
              IF k <= 4
              THEN advLog[k] = [ret |-> Value(VALID_STATES[k + 1]), wrote |-> TRUE]
              ELSE advLog[k] = [ret |-> None, wrote |-> FALSE]
        /\ rec = IF streak = 0 THEN NoFile
                 ELSE File(VALID_STATES[(IF streak <= 4 THEN streak ELSE 4) + 1])
        /\ (rec = File(<<"Done">>) <=> streak >= 4)

C1_Witness ==
    /\ streak = 5
    /\ op = "next_state"
    /\ ret = None
    /\ ~wrote
    /\ rec = File(<<"Done">>)

\* the operations the pipeline state store exposes
StoreOps == {"read_state", "write_state", "next_state"}

\* the persisted phase is the same after the step, or the next one in order
SameOrNextPhase ==
    \/ Phase' = Phase
    \/ /\ Phase \in Range(VALID_STATES)
       /\ index(Phase) < Len(VALID_STATES)
       /\ Phase' = VALID_STATES[index(Phase) + 1]

\* C2 (as stated): every operation of the store leaves the persisted phase
\* unchanged or moves it to the immediately following phase.
C2_Original == [][op' \in StoreOps => SameOrNextPhase]_vars

\* C2 (amended): read_state and next_state leave the persisted phase
\* unchanged or move it to the immediately following phase; write_state
\* either raises and leaves it unchanged or sets it to its argument, which
\* may be any of the five phases (also an earlier or a non-adjacent one).
C2_AdvanceByOneExceptWrite ==
    [][/\ op' \in {"read_state", "next_state"} => SameOrNextPhase
       /\ op' = "write_state" =>
            \/ ret'.kind = "raise" /\ Phase' = Phase
            \/ arg' \in Range(VALID_STATES) /\ Phase' = arg']_vars

C2_Witness ==
    /\ op = "next_state"
    /\ wrote
    /\ streak = -1
    /\ ret = Value(<<"Reporting">>)
    /\ Phase = <<"Reporting">>

\* the text of the record holds nothing but whitespace
OnlyWhitespace(t) == \A i \in 1..Len(t) : t[i] \in Whitespace

\* the text of the record is the word w, with whitespace around it at most
HoldsWord(t, w) ==
    \E i \in 1..Len(t) :
        /\ t[i] = w
        /\ \A j \in (1..Len(t)) \ {i} : t[j] \in Whitespace

\* C9: read_state never raises; it returns the first phase when the record
\* is absent or empty after trimming, the persisted phase when the record
\* holds one of the five phase names, and some text (no fault) when the
\* record holds anything else.
C9_ReadNeverFails ==
    op = "read_state" =>
        /\ ret.kind = "value"
        /\ ~rec.exists => ret = Value(<<"Parsing Data">>)
        /\ rec.exists /\ OnlyWhitespace(rec.text) => ret = Value(<<"Parsing Data">>)
        /\ \A w \in PhaseWords :
              rec.exists /\ HoldsWord(rec.text, w) => ret = Value(<<w>>)

C9_Witness ==
    /\ op = "read_state"
    /\ rec = File(<<"Bogus", "\n">>)
    /\ ret.kind = "value"

\* C10: write_state with an argument that is not one of the five phases
\* raises ValueError and leaves the record as it was; with one of the five
\* phases it replaces the record by exactly that phase, and a read_state
\* that follows returns it.
C10_WriteValidates ==
    [][/\ op' = "write_state" /\ arg' \notin Range(VALID_STATES) =>
            ret' = Raise("ValueError") /\ rec' = rec /\ ~wrote'
       /\ op' = "write_state" /\ arg' \in Range(VALID_STATES) =>
            ret' = None /\ rec' = File(arg') /\ wrote'
       /\ op = "write_state" /\ arg \in Range(VALID_STATES) /\ op' = "read_state" =>
            ret' = Value(arg)]_vars

C10_Witness ==
    /\ op = "write_state"
    /\ arg = <<"Bogus">>
    /\ ret = Raise("ValueError")
    /\ rec = File(<<"Reporting">>)

----------------------------------------------------------------------------
(* core/project_manager.py: get_project_path *)

\* a path is a sequence of components, a component a sequence of characters;
\* the component <<"/">> is the anchor of an absolute path
DEFAULT_PROJECTS_ROOT == << <<"/">>, <<"r", "e", "p", "o">>, <<"p", "r", "o", "j", "e", "c", "t", "s">> >>

CUSTOM_ROOT == << <<"/">>, <<"t", "m", "p">> >>

\* the separators pathlib splits a string at ('\' on Windows only)
PathSeps == {"/", "\\"}

\* str.replace(a, b) for single characters
replace(s, a, b) == [i \in 1..Len(s) |-> IF s[i] = a THEN b ELSE s[i]]

RECURSIVE lstrip_chars(_, _)
lstrip_chars(s, cs) ==
    IF s # <<>> /\ Head(s) \in cs THEN lstrip_chars(Tail(s), cs) ELSE s

RECURSIVE rstrip_chars(_, _)
rstrip_chars(s, cs) ==
    IF s # <<>> /\ s[Len(s)] \in cs
    THEN rstrip_chars(SubSeq(s, 1, Len(s) - 1), cs)
    ELSE s

\* str.strip(chars)
strip_chars(s, cs) == rstrip_chars(lstrip_chars(s, cs), cs)

\* the components of the string s: the pieces between separators, without
\* the empty ones and without "." (pathlib drops both, and keeps "..")
RECURSIVE Split(_, _)
Split(s, cur) ==
    IF s = <<>>
    THEN IF cur \in {<<>>, <<".">>} THEN <<>> ELSE <<cur>>
    ELSE IF Head(s) \in PathSeps
    THEN (IF cur \in {<<>>, <<".">>} THEN <<>> ELSE <<cur>>) \o Split(Tail(s), <<>>)
    ELSE Split(Tail(s), Append(cur, Head(s)))

\* root / s: a string that starts with a separator is absolute and replaces root
PathJoin(root, s) ==
    IF s # <<>> /\ Head(s) \in PathSeps
    THEN << <<"/">> >> \o Split(s, <<>>)
    ELSE root \o Split(s, <<>>)

get_project_path_mut_keepdots(project_name, root_arg) ==
    LET root == IF root_arg # <<>> THEN root_arg ELSE DEFAULT_PROJECTS_ROOT
        safe_name == replace(replace(strip(project_name), "/", "_"), "\\", "_")
    IN  IF safe_name = <<>>
        THEN Raise("ValueError")
        ELSE Value(PathJoin(root, safe_name))

get_project_path_mut_noreplace(project_name, root_arg) ==
    LET root == IF root_arg # <<>> THEN root_arg ELSE DEFAULT_PROJECTS_ROOT
        safe_name == strip_chars(replace(strip(project_name), "/", "_"), {"."})
    IN  IF safe_name = <<>>
        THEN Raise("ValueError")
        ELSE Value(PathJoin(root, safe_name))

get_project_path(project_name, root_arg) ==
    LET root == IF root_arg # <<>> THEN root_arg ELSE DEFAULT_PROJECTS_ROOT
        safe_name == strip_chars(
                         replace(replace(strip(project_name), "/", "_"), "\\", "_"),
                         {"."})
    IN  IF safe_name = <<>>
        THEN Raise("ValueError")
        ELSE Value(PathJoin(root, safe_name))

\* characters of the raw names that are tried
NameChars == {"a", " ", ".", "/", "\\"}

DotDot == <<".", ".">>

DotDotEtc == <<".", ".", "/", ".", ".", "/", "e", "t", "c">>

Names == SeqsUpTo(NameChars, MaxNameLen) \cup {DotDot, DotDotEtc}

----------------------------------------------------------------------------
(* SpecPath: get_project_path and ProjectManager.__init__ applied to every *)
(* raw name, with and without a custom projects root.                      *)

InitPath ==
    /\ FreshProject
    /\ NoCall
    /\ NoReset
    /\ name \in Names
    /\ projects_root \in {<<>>, CUSTOM_ROOT}
    /\ path = NotCalled

GetProjectPath ==
    /\ path = NotCalled
    /\ op' = "get_project_path"
    /\ path' = get_project_path(name, projects_root)
    /\ UNCHANGED <<fsVars, arg, ret, wrote, histVars, name, projects_root, resetVars, extVars>>

\* ProjectManager.__init__: self.projects_root is never None
NewProjectManager ==
    /\ path = NotCalled
    /\ op' = "ProjectManager"
    /\ path' = get_project_path(
                   name,
                   IF projects_root # <<>> THEN projects_root ELSE DEFAULT_PROJECTS_ROOT)
    /\ UNCHANGED <<fsVars, arg, ret, wrote, histVars, name, projects_root, resetVars, extVars>>

NextPath == GetProjectPath \/ NewProjectManager

SpecPath == InitPath /\ [][NextPath]_vars

----------------------------------------------------------------------------
(* Claims about get_project_path *)

\* the root the call resolves names under
RootUsed == IF projects_root # <<>> THEN projects_root ELSE DEFAULT_PROJECTS_ROOT

\* the path with every ".." applied to what precedes it
RECURSIVE Resolve(_, _)
Resolve(p, acc) ==
    IF p = <<>> THEN acc
    ELSE IF Head(p) = <<".", ".">>
    THEN Resolve(Tail(p), IF Len(acc) > 1 THEN SubSeq(acc, 1, Len(acc) - 1) ELSE acc)
    ELSE Resolve(Tail(p), Append(acc, Head(p)))

IsPrefix(r, p) == Len(r) <= Len(p) /\ SubSeq(p, 1, Len(r)) = r

\* p is at least one level below root once resolved
StrictlyInside(p, root) ==
    LET q == Resolve(p, <<>>) IN IsPrefix(root, q) /\ Len(q) > Len(root)

\* C6 (as stated): get_project_path("../../etc") and get_project_path("..")
\* both succeed and return a path strictly inside the root.
C6_Original ==
    path # NotCalled /\ name \in {DotDot, DotDotEtc} =>
        path.kind = "value" /\ StrictlyInside(path.val, RootUsed)

\* C6 (amended): get_project_path("../../etc") succeeds and returns
\* root/"_.._etc", strictly inside the root; get_project_path("..") raises
\* ValueError (the name is empty after normalization), so it returns no path.
C6_TraversalNames ==
    /\ path # NotCalled /\ name = DotDotEtc =>
          /\ path = Value(Append(RootUsed, <<"_", ".", ".", "_", "e", "t", "c">>))
          /\ StrictlyInside(path.val, RootUsed)
    /\ path # NotCalled /\ name = DotDot => path = Raise("ValueError")

C6_Witness ==
    /\ name = DotDot
    /\ op = "get_project_path"
    /\ path = Raise("ValueError")

\* the raw name holds only dots, with whitespace before and after them at most
OnlyDots(n) ==
    \A i \in 1..Len(n) :
        \/ n[i] = "."
        \/ /\ n[i] \in Whitespace
           /\ \/ \A j \in 1..(i - 1) : n[j] \in Whitespace
              \/ \A j \in (i + 1)..Len(n) : n[j] \in Whitespace

\* C7: for every raw name, get_project_path raises ValueError exactly when
\* the name is empty after normalization (only dots inside whitespace, as
\* "." and ""); otherwise it returns the root joined with one non-empty
\* component that holds no '/' or '\' and is neither "." nor "..": a direct
\* child of the root.
C7_DirectChildOrFault ==
    path # NotCalled =>
        /\ path.kind \in {"value", "raise"}
        /\ path.kind = "raise" <=> OnlyDots(name)
        /\ path.kind = "raise" => path.exc = "ValueError"
        /\ path.kind = "value" =>
              /\ Len(path.val) = Len(RootUsed) + 1
              /\ SubSeq(path.val, 1, Len(RootUsed)) = RootUsed
              /\ LET c == path.val[Len(path.val)] IN
                    /\ c # <<>>
                    /\ \A i \in 1..Len(c) : c[i] \notin {"/", "\\"}
                    /\ c \notin {<<".">>, <<".", ".">>}
              /\ StrictlyInside(path.val, RootUsed)

C7_Witness ==
    /\ name = <<".", "/", "a", ".">>
    /\ op = "ProjectManager"
    /\ path = Value(Append(RootUsed, <<"_", "a">>))

----------------------------------------------------------------------------
(* SpecEnsure: ProjectManager.ensure and exists called, in any order and   *)
(* any number of times, on a project directory in any state.               *)

InitEnsure ==
    /\ \E f \in ProjectStates : DiskIs(f)
    /\ NoCall
    /\ NoPath
    /\ NoReset

\* ProjectManager.ensure (create)
Ensure ==
    /\ DiskBecomes(create(Disk))
    /\ op' = "ensure"
    /\ ret' = None
    /\ UNCHANGED <<arg, wrote, histVars, pathVars, extVars, resetVars>>

\* ProjectManager.exists
Exists ==
    /\ op' = "exists"
    /\ ret' = Value(IF projDir THEN <<"True">> ELSE <<"False">>)
    /\ UNCHANGED <<fsVars, arg, wrote, histVars, pathVars, extVars, resetVars>>

NextEnsure == Ensure \/ Exists

SpecEnsure == InitEnsure /\ [][NextEnsure]_vars

\* C8: ensure leaves every file and directory that already exists as it
\* is, creates the projects root, the project directory and each missing
\* one of the four subdirectories (empty), and writes the placeholder exactly
\* when research_question.md does not exist; an ensure that follows an
\* ensure changes nothing, and exists() after ensure is true.
C8_EnsureIdempotent ==
    [][/\ op' = "ensure" =>
            /\ rootDir' /\ projDir'
            /\ \A d \in Range(PROJECT_SUBDIRS) :
                  sub'[d] = IF sub[d].exists THEN sub[d] ELSE Dir({})
            /\ rq' = IF rq.exists THEN rq ELSE File(RQ_TEMPLATE)
            /\ rec' = rec
            /\ op = "ensure" => Disk' = Disk
       /\ op = "ensure" /\ op' = "exists" => ret' = Value(<<"True">>)]_vars

C8_Witness ==
    /\ op = "ensure"
    /\ rq = File(RQ_USER)
    /\ sub["data"] = Dir({"file"})
    /\ sub["reporting"] = Dir({})
    /\ sub["analysis_scripts"] = Dir({"file", "dir"})
    /\ rec.exists

----------------------------------------------------------------------------
(* core/project_manager.py: clear_and_rerun_project, up to the point where *)
(* the prompt is built (the clearing part), one step per file-system call. *)

\* the branch the loop body takes for a child it finds to be of kind k
\* ("gone" when the child no longer exists)
branch_mut_nosymlink(k) ==
    IF k = "file" THEN "unlink"
    ELSE IF k = "dir" THEN "rmtree"
    ELSE "skip"

branch(k) ==
    IF k \in {"file", "symlink"} THEN "unlink"
    ELSE IF k = "dir" THEN "rmtree"
    ELSE "skip"

\* the directory being cleared
target_dir == GENERATED_SUBDIRS[rIdx]

\* what a stat of child c of directory d finds
KindNow(d, c) == IF sub[d].exists /\ c \in sub[d].entries THEN c ELSE "gone"

\* d without its entry c
Without(d, c) == [sub EXCEPT ![d] = Dir(sub[d].entries \ {c})]

\* manager = ProjectManager(project_name); project_path = manager.ensure()
ResetStart ==
    /\ pcR = "idle"
    /\ pre' = Disk
    /\ DiskBecomes(create(Disk))
    /\ pcR' = "scan"
    /\ rIdx' = 1
    /\ op' = "clear_and_rerun_project"
    /\ UNCHANGED <<arg, ret, wrote, histVars, pathVars, extVars, todo, child, interfered>>

\* for subdir in (...): if not target_dir.exists(): continue;
\* target_dir.iterdir() lists the children
ResetScanDir ==
    /\ pcR = "scan"
    /\ rIdx <= Len(GENERATED_SUBDIRS)
    /\ IF ~sub[target_dir].exists
       THEN /\ rIdx' = rIdx + 1
            /\ UNCHANGED <<pcR, todo>>
       ELSE /\ todo' = sub[target_dir].entries
            /\ pcR' = "iter"
            /\ UNCHANGED rIdx
    /\ UNCHANGED <<fsVars, callVars, histVars, pathVars, extVars, child, interfered, pre>>

\* the loop over the three directories is over
ResetScanEnd ==
    /\ pcR = "scan"
    /\ rIdx > Len(GENERATED_SUBDIRS)
    /\ pcR' = "record"
    /\ UNCHANGED <<fsVars, callVars, histVars, pathVars, extVars, rIdx, todo, child, interfered, pre>>

\* for child in ...: child.is_file() or child.is_symlink() / child.is_dir()
ResetNextChild ==
    /\ pcR = "iter"
    /\ todo # {}
    /\ \E c \in todo :
          /\ todo' = todo \ {c}
          /\ child' = c
          /\ pcR' = LET b == branch(KindNow(target_dir, c)) IN
                    IF b = "skip" THEN "iter" ELSE b
    /\ UNCHANGED <<fsVars, callVars, histVars, pathVars, extVars, rIdx, interfered, pre>>

\* no child left in this directory
ResetDirDone ==
    /\ pcR = "iter"
    /\ todo = {}
    /\ rIdx' = rIdx + 1
    /\ pcR' = "scan"
    /\ child' = "none"
    /\ UNCHANGED <<fsVars, callVars, histVars, pathVars, extVars, todo, interfered, pre>>

\* child.unlink(missing_ok=True)
ResetUnlink ==
    /\ pcR = "unlink"
    /\ sub' = IF KindNow(target_dir, child) # "gone"
              THEN Without(target_dir, child)
              ELSE sub
    /\ pcR' = "iter"
    /\ UNCHANGED <<rootDir, projDir, rq, rec, callVars, histVars, pathVars, extVars,
                   rIdx, todo, child, interfered, pre>>

\* shutil.rmtree(child): raises FileNotFoundError when child is gone
ResetRmtree ==
    /\ pcR = "rmtree"
    /\ IF KindNow(target_dir, child) # "gone"
       THEN /\ sub' = Without(target_dir, child)
            /\ pcR' = "iter"
            /\ UNCHANGED ret
       ELSE /\ pcR' = "fault"
            /\ ret' = Raise("FileNotFoundError")
            /\ UNCHANGED sub
    /\ UNCHANGED <<rootDir, projDir, rq, rec, op, arg, wrote, histVars, pathVars, extVars,
                   rIdx, todo, child, interfered, pre>>

\* if pipeline_state_path.exists():
ResetRecordExists ==
    /\ pcR = "record"
    /\ pcR' = IF rec.exists THEN "record_unlink" ELSE "done"
    /\ UNCHANGED <<fsVars, callVars, histVars, pathVars, extVars, rIdx, todo, child, interfered, pre>>

\* pipeline_state_path.unlink(): raises FileNotFoundError when it is gone
ResetRecordUnlink ==
    /\ pcR = "record_unlink"
    /\ IF rec.exists
       THEN /\ rec' = NoFile
            /\ pcR' = "done"
            /\ UNCHANGED ret
       ELSE /\ pcR' = "fault"
            /\ ret' = Raise("FileNotFoundError")
            /\ UNCHANGED rec
    /\ UNCHANGED <<rootDir, projDir, sub, rq, op, arg, wrote, histVars, pathVars, extVars,
                   rIdx, todo, child, interfered, pre>>

ResetStep ==
    \/ ResetStart
    \/ ResetScanDir
    \/ ResetScanEnd
    \/ ResetNextChild
    \/ ResetDirDone
    \/ ResetUnlink
    \/ ResetRmtree
    \/ ResetRecordExists
    \/ ResetRecordUnlink

\* clear_and_rerun_project is between its first and its last step
Clearing == pcR \notin {"idle", "done", "fault"}

\* another process removes a child of a generated directory
OtherRemovesChild ==
    /\ Clearing
    /\ interfered < MaxInterfere
    /\ \E d \in Range(GENERATED_SUBDIRS) :
          \E c \in sub[d].entries :
              sub' = Without(d, c)
    /\ interfered' = interfered + 1
    /\ UNCHANGED <<rootDir, projDir, rq, rec, callVars, histVars, pathVars, extVars,
                   pcR, rIdx, todo, child, pre>>

\* another process removes the phase record
OtherRemovesRecord ==
    /\ Clearing
    /\ interfered < MaxInterfere
    /\ rec.exists
    /\ rec' = NoFile
    /\ interfered' = interfered + 1
    /\ UNCHANGED <<rootDir, projDir, sub, rq, callVars, histVars, pathVars, extVars,
                   pcR, rIdx, todo, child, pre>>

----------------------------------------------------------------------------
(* SpecReset: clear_and_rerun_project run alone on a project directory in  *)
(* any state.                                                              *)

InitReset ==
    /\ \E f \in ProjectStates : DiskIs(f)
    /\ NoCall
    /\ NoPath
    /\ NoReset

NextReset == ResetStep

SpecReset == InitReset /\ [][NextReset]_vars

(* SpecRace: clear_and_rerun_project on an existing project while another  *)
(* process deletes entries of the generated directories or the record.     *)

InitRace ==
    /\ \E f \in ProjectStates :
          /\ f.projDir
          /\ f.sub["data"] = Dir({"file"})
          /\ f.rq = File(RQ_USER)
          /\ DiskIs(f)
    /\ NoCall
    /\ NoPath
    /\ NoReset

NextRace == ResetStep \/ OtherRemovesChild \/ OtherRemovesRecord

SpecRace == InitRace /\ [][NextRace]_vars

----------------------------------------------------------------------------
(* Claims about clear_and_rerun_project *)

\* when it began, the project had a file and a subdirectory in each of the
\* three generated directories, a phase record and a research question
FullProject(f) ==
    /\ f.projDir
    /\ \A d \in Range(GENERATED_SUBDIRS) :
          f.sub[d].exists /\ {"file", "dir"} \subseteq f.sub[d].entries
    /\ f.rec.exists
    /\ f.rq.exists

\* C3: run on a project that has files and subdirectories in the three
\* generated directories plus a phase record, the clearing part completes
\* without fault and ends with the entries of data/ and research_question.md
\* as they were, each generated directory present and empty, and
\* pipeline_state.txt absent.
C3_ClearsGeneratedKeepsInputs ==
    pcR # "idle" /\ FullProject(pre) =>
        /\ pcR # "fault"
        /\ pcR = "done" =>
              /\ sub["data"].entries = pre.sub["data"].entries
              /\ rq = pre.rq
              /\ \A d \in Range(GENERATED_SUBDIRS) : sub[d] = Dir({})
              /\ rec = NoFile

C3_Witness ==
    /\ pcR = "done"
    /\ FullProject(pre)
    /\ pre.sub["reporting"].entries = {"file", "symlink", "dir"}
    /\ pre.sub["data"] = Dir({"file", "dir"})
    /\ pre.rq = File(RQ_USER)
    /\ sub["reporting"] = Dir({})
    /\ sub["data"] = Dir({"file", "dir"})
    /\ ~rec.exists

\* C4 (as stated): whatever the state of the project when it begins, the
\* only changes the clearing part makes are deletions inside the three
\* generated directories and the deletion of the phase record; it never
\* creates, modifies or deletes data/ or research_question.md.
C4_Original ==
    pcR # "idle" =>
        /\ sub["data"] = pre.sub["data"]
        /\ rq = pre.rq
        /\ rootDir = pre.rootDir
        /\ projDir = pre.projDir
        /\ \A d \in Range(GENERATED_SUBDIRS) :
              /\ sub[d].exists = pre.sub[d].exists
              /\ sub[d].entries \subseteq pre.sub[d].entries
        /\ rec \in {pre.rec, NoFile}

\* C5 (as stated): the clearing part completes without fault when another
\* process removes a child entry or the phase record between the moment it
\* is observed and the moment it is deleted.
C5_Original == pcR # "fault"

----------------------------------------------------------------------------
(* Claims about a record that holds no phase *)

\* the text, once trimmed, is neither empty nor one of the five phase names
Corrupt(t) ==
    /\ ~OnlyWhitespace(t)
    /\ \A w \in PhaseWords : ~HoldsWord(t, w)

\* C15: when the trimmed record is non-empty and is not one of the five
\* phase names, next_state does not raise, returns the first phase
\* ("Parsing Data") and writes nothing: the record stays as it is.
C15_CorruptRecordNotRewritten ==
    [][op' = "next_state" /\ rec.exists /\ Corrupt(rec.text) =>
            /\ ret' = Value(<<"Parsing Data">>)
            /\ ~wrote'
            /\ rec' = rec]_vars

C15_Witness ==
    /\ op = "next_state"
    /\ rec = File(<<"Bogus", "Done">>)
    /\ ret = Value(<<"Parsing Data">>)
    /\ ~wrote

----------------------------------------------------------------------------
(* SpecOps: ensure, write_state, next_state, read_state and the clearing   *)
(* part of clear_and_rerun_project called one after the other, in any      *)
(* order, on a freshly ensured project.                                    *)

\* the clearing part of clear_and_rerun_project run to its end with no
\* other process at work: the project on disk afterwards
reset_generated(fs) ==
    LET e == create(fs) IN
    [e EXCEPT !.sub = [d \in Range(PROJECT_SUBDIRS) |->
                          IF d \in Range(GENERATED_SUBDIRS) THEN Dir({}) ELSE e.sub[d]],
              !.rec = NoFile]

InitOps ==
    /\ FreshProject
    /\ NoCall
    /\ NoPath
    /\ NoReset

ResetGenerated ==
    /\ DiskBecomes(reset_generated(Disk))
    /\ op' = "reset_generated"
    /\ arg' = <<>>
    /\ ret' = None
    /\ wrote' = FALSE
    /\ streak' = 0
    /\ advLog' = <<>>
    /\ UNCHANGED <<pathVars, extVars, resetVars>>

NextOps == Ensure \/ WriteState \/ NextState \/ ReadState \/ ResetGenerated

SpecOps == InitOps /\ [][NextOps]_vars

\* C11: in every state reached from a freshly ensured project by ensure,
\* write_state (valid or invalid argument), next_state and the clearing of
\* the project, the record is absent or holds exactly one of the five phase
\* names, and read_state returns one of the five phases.
C11_RecordIsAPhase ==
    /\ \/ rec = NoFile
       \/ \E i \in 1..Len(VALID_STATES) : rec = File(VALID_STATES[i])
    /\ read_state(rec) \in Range(VALID_STATES)
    /\ op = "read_state" => ret.kind = "value" /\ ret.val \in Range(VALID_STATES)

C11_Witness ==
    /\ op = "write_state"
    /\ arg = <<"Bogus">>
    /\ ret = Raise("ValueError")
    /\ rec = File(<<"Visualizing">>)

\* run alone, the steps of the clearing part end in reset_generated(pre)
ResetStepsAgree == pcR = "done" => Disk = reset_generated(pre)

----------------------------------------------------------------------------
(* SpecEnsureRace: several processes call ProjectManager.ensure on the     *)
(* same project, which has no research_question.md, one step per           *)
(* file-system call.                                                       *)

InitEnsureRace ==
    /\ \E f \in ProjectStates : ~f.rq.exists /\ DiskIs(f)
    /\ NoCall
    /\ NoPath
    /\ NoReset

\* ensure_projects_root, self.path.mkdir, the mkdir of the four subdirectories
EnsureMkdirs(p) ==
    /\ ePc[p] = "start"
    /\ rootDir' = TRUE
    /\ projDir' = TRUE
    /\ sub' = [d \in Range(PROJECT_SUBDIRS) |->
                  IF sub[d].exists THEN sub[d] ELSE Dir({})]
    /\ ePc' = [ePc EXCEPT ![p] = "check"]
    /\ op' = "ensure"
    /\ UNCHANGED <<rq, rec, arg, ret, wrote, histVars, pathVars, resetVars, placed, promptVars, cliVars, runVars>>

\* if not research_question_path.exists():
EnsureCheckQuestion(p) ==
    /\ ePc[p] = "check"
    /\ ePc' = [ePc EXCEPT ![p] = IF rq.exists THEN "done" ELSE "write"]
    /\ UNCHANGED <<fsVars, callVars, histVars, pathVars, resetVars, placed, promptVars, cliVars, runVars>>

\* research_question_path.write_text(placeholder)
EnsureWritePlaceholder(p) ==
    /\ ePc[p] = "write"
    /\ rq' = File(RQ_TEMPLATE)
    /\ placed' = [placed EXCEPT ![p] = TRUE]
    /\ ePc' = [ePc EXCEPT ![p] = "done"]
    /\ UNCHANGED <<rootDir, projDir, sub, rec, callVars, histVars, pathVars, resetVars, promptVars, cliVars, runVars>>

NextEnsureRace ==
    \E p \in Ensurers :
        \/ EnsureMkdirs(p)
        \/ EnsureCheckQuestion(p)
        \/ EnsureWritePlaceholder(p)

SpecEnsureRace == InitEnsureRace /\ [][NextEnsureRace]_vars

\* C14 (as stated): under every interleaving of the concurrent ensure calls
\* at most one of them writes the placeholder file.
C14_Original == Cardinality({p \in Ensurers : placed[p]}) <= 1

\* one process alone goes through the same steps as create does at once
EnsureStepsAgree ==
    (ePc[1] = "done" /\ \A p \in Ensurers \ {1} : ePc[p] = "start") =>
        /\ rq = File(RQ_TEMPLATE)
        /\ placed[1]

----------------------------------------------------------------------------
(* core/prompt_builder.py and its two callers *)

\* the repository root: _ROOT in run_autoscience.py and
\* Path(__file__).resolve().parent.parent in core/project_manager.py
REPO_ROOT == << <<"/">>, <<"r", "e", "p", "o">> >>

\* build_codex_prompt: the values interpolated into the instruction text
\* (the fixed wording and the agent prompts read under agents are the rest)
build_codex_prompt(project_name, project_path, repo_root) ==
    [project_root |-> project_path,
     research_question |-> Append(project_path, <<"research_question.md">>),
     data |-> Append(project_path, <<"data">>),
     analysis_scripts |-> Append(project_path, <<"analysis_scripts">>),
     visualization_scripts |-> Append(project_path, <<"visualization_scripts">>),
     reporting |-> Append(project_path, <<"reporting">>),
     agents |-> Append(repo_root, <<"agents">>),
     notebook_name |-> project_name \o <<"_reproducable.ipynb">>]

Composed(p) == [kind |-> "value", val |-> p, exc |-> ""]

\* main: manager = ProjectManager(args.project, ...); path = manager.ensure();
\* project_name = path.name; build_codex_prompt(project_name, path, _ROOT)
main_prompt(raw_name, root_arg) ==
    LET p == get_project_path(
                 raw_name,
                 IF root_arg # <<>> THEN root_arg ELSE DEFAULT_PROJECTS_ROOT)
    IN  IF p.kind = "raise" THEN p
        ELSE Composed(build_codex_prompt(p.val[Len(p.val)], p.val, REPO_ROOT))

\* clear_and_rerun_project: manager = ProjectManager(project_name, ...);
\* project_path = manager.ensure(); build_codex_prompt(project_name, ...)
clear_prompt(raw_name, root_arg) ==
    LET p == get_project_path(
                 raw_name,
                 IF root_arg # <<>> THEN root_arg ELSE DEFAULT_PROJECTS_ROOT)
    IN  IF p.kind = "raise" THEN p
        ELSE Composed(build_codex_prompt(raw_name, p.val, REPO_ROOT))

(* SpecPrompt: a normal run and a clear-and-rerun of the same project name *)
(* each compose their instruction text.                                    *)

InitPrompt ==
    /\ FreshProject
    /\ NoCall
    /\ NoReset
    /\ name \in Names
    /\ projects_root \in {<<>>, CUSTOM_ROOT}
    /\ path = NotCalled

ComposeNormal ==
    /\ promptN = NotCalled
    /\ promptN' = main_prompt(name, projects_root)
    /\ UNCHANGED <<fsVars, callVars, histVars, pathVars, resetVars, raceVars, cliVars, runVars, promptC>>

ComposeClear ==
    /\ promptC = NotCalled
    /\ promptC' = clear_prompt(name, projects_root)
    /\ UNCHANGED <<fsVars, callVars, histVars, pathVars, resetVars, raceVars, cliVars, runVars, promptN>>

NextPrompt == ComposeNormal \/ ComposeClear

SpecPrompt == InitPrompt /\ [][NextPrompt]_vars

\* C17 (as stated): for every project name get_project_path accepts, the
\* instruction text of a normal run and that of a clear-and-rerun are
\* identical, notebook file name included.
C17_Original ==
    promptN.kind = "value" /\ promptC.kind = "value" => promptN.val = promptC.val

----------------------------------------------------------------------------
(* run_autoscience.py: main, one step per call, with the user at the       *)
(* prompts and in the data folder while main waits for Enter.              *)

\* what the user types at the research-question prompt
Questions == {<<>>, <<" ">>, <<"Does X cause Y?">>}

\* "Describe the goal" in text
ContainsDescribeTheGoal(t) ==
    \E i \in 1..Len(t) :
        t[i] = "<!-- Describe the goal and constraints of this research. -->"

\* _validate_ready_for_run: the ValueError it raises, or None
validate_ready_for_run(f) ==
    IF ~f.rq.exists THEN Raise("ValueError")
    ELSE IF strip(f.rq.text) = <<>> \/ ContainsDescribeTheGoal(strip(f.rq.text))
    THEN Raise("ValueError")
    ELSE IF ~f.sub["data"].exists THEN Raise("ValueError")
    ELSE IF "file" \notin f.sub["data"].entries THEN Raise("ValueError")
    ELSE None

\* the project names given on the command line
CliNames == {<<"p">>, <<".", ".">>}

\* the projects the command is run on
CliProjectStates ==
    {f \in ProjectStates :
        \A d \in Range(GENERATED_SUBDIRS) : f.sub[d].entries \subseteq {"file"}}

InitCli ==
    /\ \E f \in CliProjectStates : DiskIs(f)
    /\ NoCall
    /\ pcR = "idle" /\ rIdx = 1 /\ todo = {} /\ child = "none"
    /\ interfered = 0 /\ pre = Disk
    /\ NoRace
    /\ NoPrompt
    /\ NoRun
    /\ name \in CliNames
    /\ projects_root = <<>>
    /\ path = NotCalled
    /\ mode \in {"normal", "clear"}
    /\ cPc = "start"
    /\ exitS = Running
    /\ agentRan = FALSE
    /\ launch = Disk
    /\ mutated = FALSE

cliRest == <<callVars, histVars, resetVars, raceVars, promptVars, runVars>>

\* _ensure_openai_api_key raises ValueError: no key entered
CliNoApiKey ==
    /\ cPc = "start"
    /\ cPc' = "exit"
    /\ exitS' = Exited(1, TRUE, "no_api_key")
    /\ UNCHANGED <<fsVars, pathVars, cliRest, mode, agentRan, launch, mutated>>

\* if clear_and_run: ... else ...
CliDispatch ==
    /\ cPc = "start"
    /\ cPc' = IF mode = "clear" THEN "clear_manager" ELSE "manager"
    /\ UNCHANGED <<fsVars, pathVars, cliRest, mode, exitS, agentRan, launch, mutated>>

\* try: manager = ProjectManager(...) except ValueError: sys.exit(1)
CliNewManager ==
    /\ cPc \in {"manager", "clear_manager"}
    /\ path' = get_project_path(
                   name,
                   IF projects_root # <<>> THEN projects_root ELSE DEFAULT_PROJECTS_ROOT)
    /\ IF path'.kind = "raise"
       THEN /\ cPc' = "exit"
            /\ exitS' = Exited(1, TRUE, "bad_name")
       ELSE /\ cPc' = IF cPc = "manager" THEN "ensure" ELSE "clear"
            /\ UNCHANGED exitS
    /\ UNCHANGED <<fsVars, name, projects_root, cliRest, mode, agentRan, launch, mutated>>

\* path = manager.ensure()
CliEnsure ==
    /\ cPc = "ensure"
    /\ DiskBecomes(create(Disk))
    /\ mutated' = (mutated \/ create(Disk) # Disk)
    /\ cPc' = "question"
    /\ UNCHANGED <<pathVars, cliRest, mode, exitS, agentRan, launch>>

\* the research-question dialogue
CliQuestion ==
    /\ cPc = "question"
    /\ rq.exists
    /\ \E use \in {"y", "n"}, question \in Questions :
          LET existing == strip(rq.text)
              ask == \/ existing = <<>>
                     \/ ContainsDescribeTheGoal(existing)
                     \/ use = "y"
              save == ask /\ strip(question) # <<>>
          IN  /\ rq' = IF save
                       THEN File(<<"# Research question", "\n", "\n">>
                                 \o strip(question) \o <<"\n">>)
                       ELSE rq
              /\ mutated' = (mutated \/ save)
    /\ cPc' = "wait"
    /\ UNCHANGED <<rootDir, projDir, sub, rec, pathVars, cliRest, mode, exitS, agentRan, launch>>

\* while main waits for Enter the user puts a file into data/
UserAddsDataFile ==
    /\ cPc = "wait"
    /\ sub["data"].exists
    /\ "file" \notin sub["data"].entries
    /\ sub' = [sub EXCEPT !["data"] = Dir(sub["data"].entries \cup {"file"})]
    /\ UNCHANGED <<rootDir, projDir, rq, rec, pathVars, cliRest, cliVars>>

\* ... or removes the data folder
UserRemovesData ==
    /\ cPc = "wait"
    /\ sub["data"].exists
    /\ sub' = [sub EXCEPT !["data"] = NoDir]
    /\ UNCHANGED <<rootDir, projDir, rq, rec, pathVars, cliRest, cliVars>>

\* ... or removes research_question.md
UserRemovesQuestion ==
    /\ cPc = "wait"
    /\ rq.exists
    /\ rq' = NoFile
    /\ UNCHANGED <<rootDir, projDir, sub, rec, pathVars, cliRest, cliVars>>

\* Enter pressed: _validate_ready_for_run(manager), outside any try
CliValidate ==
    /\ cPc = "wait"
    /\ IF validate_ready_for_run(Disk).kind = "raise"
       THEN /\ cPc' = "exit"
            /\ exitS' = Exited(1, FALSE, "not_ready")
       ELSE /\ cPc' = "run"
            /\ UNCHANGED exitS
    /\ UNCHANGED <<fsVars, pathVars, cliRest, mode, agentRan, launch, mutated>>

\* clear_and_rerun_project: ensure and the clearing of the generated parts
CliClear ==
    /\ cPc = "clear"
    /\ DiskBecomes(reset_generated(Disk))
    /\ mutated' = (mutated \/ reset_generated(Disk) # Disk)
    /\ cPc' = "run"
    /\ UNCHANGED <<pathVars, cliRest, mode, exitS, agentRan, launch>>

\* build_codex_prompt and run_codex, with the three ways it ends
CliRunCodex ==
    /\ cPc = "run"
    /\ launch' = Disk
    /\ \E outcome \in {"finished", "not_found", "timeout"} :
          /\ agentRan' = (outcome # "not_found")
          /\ exitS' = IF outcome = "finished"
                      THEN Exited(0, TRUE, "finished")
                      ELSE Exited(1, TRUE, outcome)
    /\ cPc' = "exit"
    /\ UNCHANGED <<fsVars, pathVars, cliRest, mode, mutated>>

NextCli ==
    \/ CliNoApiKey
    \/ CliDispatch
    \/ CliNewManager
    \/ CliEnsure
    \/ CliQuestion
    \/ UserAddsDataFile
    \/ UserRemovesData
    \/ UserRemovesQuestion
    \/ CliValidate
    \/ CliClear
    \/ CliRunCodex

SpecCli == InitCli /\ [][NextCli]_vars

\* the research question is set and the data directory holds a file
ReadyToRun(f) ==
    /\ f.rq.exists
    /\ ~OnlyWhitespace(f.rq.text)
    /\ f.rq.text # RQ_TEMPLATE
    /\ f.sub["data"].exists
    /\ "file" \in f.sub["data"].entries

\* C12 (as stated): in normal mode and in clear-and-rerun mode alike, if
\* the research question is missing, empty or still the template, or the
\* data directory is missing or holds no file when the agent is about to be
\* run, the process exits non-zero instead of running the agent.
C12_Original ==
    /\ agentRan => ReadyToRun(launch)
    /\ exitS.done /\ exitS.reason = "not_ready" => exitS.status # 0 /\ ~agentRan

\* C13 (as stated): a run that ends because of a validation fault (bad
\* project name, missing prerequisite at run time) ends in an except clause
\* of main with a non-zero status, and main has changed nothing in the
\* project on disk.
C13_Original ==
    exitS.done /\ exitS.reason \in {"bad_name", "not_ready"} =>
        /\ exitS.caught
        /\ exitS.status # 0
        /\ ~mutated

----------------------------------------------------------------------------
(* run_codex: the agent process writes lines to its two pipes, one reader  *)
(* thread per pipe cleans and collects them, and the caller waits for the  *)
(* process, joins the threads for a bounded time and builds the result.    *)
(* A character of output is a token: "ESC" is one ANSI escape sequence,    *)
(* "BS" the backspace \x08, "NL" the newline.                              *)

ANSI_RE == {"ESC"}

\* re.sub(r".\x08", "", text): left to right, "." does not match a newline
RECURSIVE remove_overprints(_)
remove_overprints(text) ==
    IF Len(text) = 0 THEN <<>>
    ELSE IF Len(text) >= 2 /\ text[1] # "NL" /\ text[2] = "BS"
         THEN remove_overprints(SubSeq(text, 3, Len(text)))
         ELSE <<text[1]>> \o remove_overprints(Tail(text))

clean_output(text) ==
    remove_overprints(SelectSeq(text, LAMBDA c : c \notin ANSI_RE))

\* "".join(lines)
RECURSIVE join(_)
join(ls) ==
    IF Len(ls) = 0 THEN <<>> ELSE Head(ls) \o join(Tail(ls))

\* the lines the agent can write
OutputLines == {<<"a", "NL">>, <<"ESC", "a", "b", "BS", "BS", "NL">>}

\* what the reader thread of a stream has collected once it has read every
\* line written to it
Drained(s) == [i \in 1..Len(written[s]) |-> clean_output(written[s][i])]

\* the state after Popen and the start of both reader threads
InitRun ==
    /\ FreshProject
    /\ NoCall
    /\ NoPath
    /\ pcR = "idle" /\ rIdx = 1 /\ todo = {} /\ child = "none"
    /\ interfered = 0 /\ pre = Disk
    /\ NoRace
    /\ NoPrompt
    /\ NoCli
    /\ proc = "running"
    /\ pipe = [s \in Streams |-> <<>>]
    /\ written = [s \in Streams |-> <<>>]
    /\ lines = [s \in Streams |-> <<>>]
    /\ reader = [s \in Streams |-> "reading"]
    /\ kPc = "wait"
    /\ result = NotCalled

runRest == <<fsVars, callVars, histVars, pathVars, resetVars, raceVars,
             promptVars, cliVars>>

\* the agent writes a line to one of its pipes
ChildWrites(s) ==
    /\ proc = "running"
    /\ Len(written[s]) < MaxLines
    /\ \E l \in OutputLines :
          /\ pipe' = [pipe EXCEPT ![s] = Append(@, l)]
          /\ written' = [written EXCEPT ![s] = Append(@, l)]
    /\ UNCHANGED <<proc, lines, reader, kPc, result, runRest>>

\* the agent ends, which closes its ends of the pipes
ChildExits ==
    /\ proc = "running"
    /\ proc' = "exited"
    /\ UNCHANGED <<pipe, written, lines, reader, kPc, result, runRest>>

\* read_stream: readline returns a line, which is cleaned and appended
ReaderReadsLine(s) ==
    /\ reader[s] = "reading"
    /\ pipe[s] # <<>>
    /\ lines' = [lines EXCEPT ![s] = Append(@, clean_output(Head(pipe[s])))]
    /\ pipe' = [pipe EXCEPT ![s] = Tail(@)]
    /\ UNCHANGED <<proc, written, reader, kPc, result, runRest>>

\* read_stream: readline returns "" at end of stream and the thread ends
ReaderReachesEof(s) ==
    /\ reader[s] = "reading"
    /\ pipe[s] = <<>>
    /\ proc # "running"
    /\ reader' = [reader EXCEPT ![s] = "eof"]
    /\ UNCHANGED <<proc, pipe, written, lines, kPc, result, runRest>>

\* proc.wait(timeout=timeout_seconds) returns: the process has ended
WaitReturns ==
    /\ kPc = "wait"
    /\ proc = "exited"
    /\ kPc' = "join_out"
    /\ UNCHANGED <<proc, pipe, written, lines, reader, result, runRest>>

\* proc.wait raises TimeoutExpired; proc.kill() and proc.wait()
WaitTimesOut ==
    /\ kPc = "wait"
    /\ proc = "running"
    /\ proc' = "killed"
    /\ kPc' = "kill_join_out"
    /\ UNCHANGED <<pipe, written, lines, reader, result, runRest>>

\* where run_codex joins the thread of stream s, and where it goes next
JoinAt(s) ==
    IF s = "out" THEN {"join_out", "kill_join_out"}
    ELSE {"join_err", "kill_join_err"}

AfterJoin(pc) ==
    CASE pc = "join_out" -> "join_err"
      [] pc = "join_err" -> "build"
      [] pc = "kill_join_out" -> "kill_join_err"
      [] pc = "kill_join_err" -> "reraise"

\* t.join(timeout=...) returns because the thread has ended
JoinEnds(s) ==
    /\ kPc \in JoinAt(s)
    /\ reader[s] = "eof"
    /\ kPc' = AfterJoin(kPc)
    /\ UNCHANGED <<proc, pipe, written, lines, reader, result, runRest>>

\* t.join(timeout=...) returns because the timeout has passed; the thread
\* is still in read_stream
JoinTimesOut(s) ==
    /\ kPc \in JoinAt(s)
    /\ reader[s] = "reading"
    /\ kPc' = AfterJoin(kPc)
    /\ UNCHANGED <<proc, pipe, written, lines, reader, result, runRest>>

\* out = clean_output("".join(out_lines)), the same for err; return out, err
BuildResult ==
    /\ kPc = "build"
    /\ result' = Value(<<clean_output(join(lines["out"])),
                         clean_output(join(lines["err"]))>>)
    /\ kPc' = "returned"
    /\ UNCHANGED <<proc, pipe, written, lines, reader, runRest>>

\* the bare raise at the end of the except clause
Reraise ==
    /\ kPc = "reraise"
    /\ result' = Raise("TimeoutExpired")
    /\ kPc' = "raised"
    /\ UNCHANGED <<proc, pipe, written, lines, reader, runRest>>

NextRun ==
    \/ \E s \in Streams : ChildWrites(s)
    \/ ChildExits
    \/ \E s \in Streams : ReaderReadsLine(s)
    \/ \E s \in Streams : ReaderReachesEof(s)
    \/ WaitReturns
    \/ WaitTimesOut
    \/ \E s \in Streams : JoinEnds(s)
    \/ \E s \in Streams : JoinTimesOut(s)
    \/ BuildResult
    \/ Reraise

SpecRun == InitRun /\ [][NextRun]_vars

\* C16 (as stated): whenever run_codex returns normally, both reader
\* threads have reached end-of-stream before the result is built, and the
\* returned stdout and stderr texts hold every line written to the
\* respective pipe, cleaned and in order.
C16_Original ==
    kPc = "returned" =>
        /\ \A s \in Streams : reader[s] = "eof"
        /\ result = Value(<<clean_output(join(Drained("out"))),
                            clean_output(join(Drained("err")))>>)

\* when neither join of the normal path gave up, the result is complete
JoinedResultComplete ==
    kPc = "build" /\ (\A s \in Streams : reader[s] = "eof") =>
        /\ lines = [s \in Streams |-> Drained(s)]
        /\ \A s \in Streams : pipe[s] = <<>>

====
